---- MODULE Spec2Model ----
(***************************************************************************)
(* StellarLens: the screen-space gravitational lensing transform of       *)
(* shaders/lensing.frag, and the uniforms js/lensingEffect.js feeds it.    *)
(*                                                                         *)
(* GLSL floats are modelled as exact rationals <<numerator, denominator>>  *)
(* in lowest terms; a division by zero gives NonFinite (IEEE inf or NaN),  *)
(* which every later operation propagates and every comparison rejects.    *)
(* A value q / sqrt(n), as normalize() produces, is kept as the pair of q  *)
(* and n, so that its sign and its square are exact.                       *)
(***************************************************************************)
EXTENDS Integers, Sequences, FiniteSets, TLC

\* the lensing material's uniforms, and one pixel of the full-screen quad
VARIABLES uniforms, vUv, fragment

\* js/main.js: the position in init() and animate(), PARAMS, the camera and
\* its OrbitControls, the window, the black hole mesh and its point light,
\* the clock reading of the frame, the loaded texture, the error overlay,
\* the steps the frame has run, what each pixel of the pass read, and the
\* counts of frames and user events
VARIABLES pc, PARAMS, camera, controls, windowSize, blackHoleMesh, pointLight,
          elapsedTime, backgroundTexture, errorDiv, done, passReads, frames, events

\* js/rayVisualizer.js and js/graphManager.js: the pool of ray lines, the
\* graph's data and its canvas
VARIABLES rayLinesGroup, graphData, canvas

\* js/sceneSetup.js: whether the black hole mesh is a child of the scene, its
\* visible flag and the radius of its sphere geometry
VARIABLE sceneMesh

shaderVars == <<uniforms, vUv, fragment>>

hostVars == <<pc, PARAMS, camera, controls, windowSize, blackHoleMesh, pointLight,
              elapsedTime, backgroundTexture, errorDiv, done, passReads, frames, events>>

overlayVars == <<rayLinesGroup, graphData, canvas>>

vars == <<shaderVars, hostVars, overlayVars, sceneMesh>>

(***************************************************************************)
(* Float arithmetic                                                        *)
(***************************************************************************)
Abs(n) == IF n < 0 THEN -n ELSE n

RECURSIVE Gcd(_, _)
Gcd(a, b) == IF b = 0 THEN a ELSE Gcd(b, a % b)

NonFinite == <<0, 0>>

Finite(q) == q[2] # 0

Rat(n, d) ==
    IF d = 0 THEN NonFinite
    ELSE IF n = 0 THEN <<0, 1>>
    ELSE LET g == Gcd(Abs(n), Abs(d))
             s == IF d < 0 THEN -1 ELSE 1
         IN  <<s * (n \div g), s * (d \div g)>>

Num(n) == <<n, 1>>

RNeg(p) == <<-p[1], p[2]>>

RAdd(p, q) ==
    IF ~Finite(p) \/ ~Finite(q) THEN NonFinite
    ELSE LET g == Gcd(p[2], q[2])
         IN  Rat(p[1] * (q[2] \div g) + q[1] * (p[2] \div g), (p[2] \div g) * q[2])

RSub(p, q) == RAdd(p, RNeg(q))

RMul(p, q) ==
    IF ~Finite(p) \/ ~Finite(q) THEN NonFinite
    ELSE IF p[1] = 0 \/ q[1] = 0 THEN <<0, 1>>
    ELSE LET g1 == Gcd(Abs(p[1]), q[2])
             g2 == Gcd(Abs(q[1]), p[2])
         IN  <<(p[1] \div g1) * (q[1] \div g2), (p[2] \div g2) * (q[2] \div g1)>>

\* p / q; x / 0 is inf or NaN in IEEE arithmetic (undefined in GLSL)
RDiv(p, q) ==
    IF ~Finite(p) \/ ~Finite(q) \/ q[1] = 0 THEN NonFinite
    ELSE RMul(p, IF q[1] < 0 THEN <<-q[2], -q[1]>> ELSE <<q[2], q[1]>>)

\* a/b < c/d for b, d > 0, by comparing the continued fractions
RECURSIVE Less(_, _, _, _)
Less(a, b, c, d) ==
    LET qa == a \div b
        qc == c \div d
        ra == a - qa * b
        rc == c - qc * d
    IN  IF qa # qc THEN qa < qc
        ELSE IF rc = 0 THEN FALSE
        ELSE IF ra = 0 THEN TRUE
        ELSE Less(d, rc, b, ra)

\* p < q; false when either side is not finite
RLt(p, q) == Finite(p) /\ Finite(q) /\ Less(p[1], p[2], q[1], q[2])

RLe(p, q) == Finite(p) /\ Finite(q) /\ ~RLt(q, p)

\* the older variant's clamp(x, 0.0, 1.0) in the place of the wrap
clamp01(q) ==
    IF ~Finite(q) THEN NonFinite
    ELSE IF RLt(q, <<0, 1>>) THEN <<0, 1>> ELSE IF RLt(<<1, 1>>, q) THEN <<1, 1>> ELSE q

\* fract(x) = x - floor(x)
fract(q) ==
    IF ~Finite(q) THEN NonFinite
    ELSE Rat(q[1] - (q[1] \div q[2]) * q[2], q[2])

Finite2(v) == Finite(v[1]) /\ Finite(v[2])

fract2(v) == <<fract(v[1]), fract(v[2])>>

Add2(v, w) == <<RAdd(v[1], w[1]), RAdd(v[2], w[2])>>

Sub2(v, w) == <<RSub(v[1], w[1]), RSub(v[2], w[2])>>

Scale2(v, k) == <<RMul(v[1], k), RMul(v[2], k)>>

dot2(v, w) == RAdd(RMul(v[1], w[1]), RMul(v[2], w[2]))

Add3(v, w) == <<RAdd(v[1], w[1]), RAdd(v[2], w[2]), RAdd(v[3], w[3])>>

Sub3(v, w) == <<RSub(v[1], w[1]), RSub(v[2], w[2]), RSub(v[3], w[3])>>

Scale3(v, k) == <<RMul(v[1], k), RMul(v[2], k), RMul(v[3], k)>>

dot3(v, w) == RAdd(RAdd(RMul(v[1], w[1]), RMul(v[2], w[2])), RMul(v[3], w[3]))

Vec3(x, y, z) == <<Num(x), Num(y), Num(z)>>

(***************************************************************************)
(* The camera matrices, as three.js builds them                            *)
(***************************************************************************)
\* tan(75 degrees / 2) = 0.76733, to three digits
TanHalfFov == <<10, 13>>

\* camera.near
Near == <<1, 10>>

\* camera.projectionMatrixInverse of a PerspectiveCamera with the window's
\* aspect: it maps the clip point (x, y, -1, 1) to (aspect*tan*x, tan*y, -1, 1/near)
ProjectionMatrixInverse(window) ==
    [sx |-> RMul(Rat(window[1], window[2]), TanHalfFov), sy |-> TanHalfFov, w |-> RDiv(Num(1), Near)]

\* projInv * vec4(x, y, -1, 1)
ProjInvMul(projInv, x, y) == <<RMul(projInv.sx, x), RMul(projInv.sy, y), Num(-1), projInv.w>>

\* viewInv * vec4(v, 0): the rotation part of camera.matrixWorld
ViewInvRotate(viewInv, v) ==
    Add3(Add3(Scale3(viewInv.right, v[1]), Scale3(viewInv.up, v[2])), Scale3(viewInv.back, v[3]))

\* the x, y and w of projectionMatrix * viewMatrix * vec4(p, 1), the two matrices
\* being inverse(projectionMatrixInverse) and inverse(viewMatrixInverse)
ClipPosition(projInv, viewInv, p) ==
    LET rel == Sub3(p, viewInv.position)
        eye == <<dot3(rel, viewInv.right), dot3(rel, viewInv.up), dot3(rel, viewInv.back)>>
    IN  [x |-> RDiv(eye[1], projInv.sx), y |-> RDiv(eye[2], projInv.sy), w |-> RNeg(eye[3])]

(***************************************************************************)
(* lensing.frag                                                            *)
(***************************************************************************)
\* normalize(worldDir), kept as worldDir and its squared length
getRayDirection(screenUv, camPos, projInv, viewInv) ==
    LET ndc      == <<RSub(RMul(screenUv[1], Num(2)), Num(1)), RSub(RMul(screenUv[2], Num(2)), Num(1))>>
        rayClip  == ProjInvMul(projInv, ndc[1], ndc[2])
        rayEye   == <<RDiv(rayClip[1], rayClip[4]), RDiv(rayClip[2], rayClip[4]), RDiv(rayClip[3], rayClip[4])>>
        worldDir == ViewInvRotate(viewInv, rayEye)
    IN  [dir |-> worldDir, len2 |-> dot3(worldDir, worldDir)]

\* sin(time * 0.01) at the sampled times 0, 100 and 400, to the nearest 1/25
sin001(time) == IF time = 0 THEN <<0, 1>> ELSE IF time = 100 THEN <<21, 25>> ELSE <<-19, 25>>

\* cos(time * 0.015) at the sampled times 0, 100 and 400, to the nearest 1/25
cos0015(time) == IF time = 0 THEN <<1, 1>> ELSE IF time = 100 THEN <<2, 25>> ELSE <<24, 25>>

\* a drift that leaves out the vertical part
driftHorizontalOnly(time) == <<RMul(sin001(time), <<1, 200>>), <<0, 1>>>>

\* vec2(sin(time * 0.01) * 0.005, cos(time * 0.015) * 0.005)
drift(time) == <<RMul(sin001(time), <<1, 200>>), RMul(cos0015(time), <<1, 200>>)>>

\* what a lookup at a non-finite coordinate returns is left to the GPU
Unspecified == <<-1, -1, -1, -1>>

\* texture2D(backgroundTexture, uv) with RepeatWrapping: a 4 x 4 field of
\* distinct texels, none of them black
Texel(x) ==
    IF RLt(x, <<1, 4>>) THEN 1 ELSE IF RLt(x, <<1, 2>>) THEN 2 ELSE IF RLt(x, <<3, 4>>) THEN 3 ELSE 4

texture2D(uv) ==
    IF ~Finite2(uv) THEN Unspecified
    ELSE <<Texel(fract(uv[1])), Texel(fract(uv[2])), 1, 1>>

\* the sign slip tca > 0.0
BehindRayFlipped(tcaNum) == RLt(Num(0), tcaNum)

\* tca < 0.0, tca being tcaNum / sqrt(len2)
BehindRay(tcaNum) == RLt(tcaNum, Num(0))

\* dot(L, L) - tca * tca
ImpactSq(L, tcaNum, len2) == RSub(dot3(L, L), RDiv(RMul(tcaNum, tcaNum), len2))

\* the slip of comparing d2, not its square root, with the radius
InsideEventHorizonNoSqrt(d2, eventHorizonRadius) ==
    /\ RLe(Num(0), d2)
    /\ RLt(d2, eventHorizonRadius)

\* d = sqrt(d2); d < eventHorizonRadius
InsideEventHorizon(d2, eventHorizonRadius) ==
    /\ RLe(Num(0), d2)
    /\ RLt(Num(0), eventHorizonRadius)
    /\ RLt(d2, RMul(eventHorizonRadius, eventHorizonRadius))

\* bhNdc = bhClipPos.xy / bhClipPos.w; bhUv = bhNdc * 0.5 + 0.5
ScreenUv(bhClipPos) ==
    <<RAdd(RMul(RDiv(bhClipPos.x, bhClipPos.w), <<1, 2>>), <<1, 2>>),
      RAdd(RMul(RDiv(bhClipPos.y, bhClipPos.w), <<1, 2>>), <<1, 2>>)>>

\* uv_centered = vUv - bhUv; uv_centered.x *= aspect
UvCentered(uv, bhUv, aspect) ==
    LET c == Sub2(uv, bhUv) IN <<RMul(c[1], aspect), c[2]>>

\* the older variant's guard, distScreenSq == 0.0
ExactlyAtSingularity(r2) == r2 = <<0, 1>>

\* r2 < 0.000001
NearSingularity(r2) == RLt(r2, <<1, 1000000>>)

\* the sign slip uv_centered * (1.0 + lensingStrength / r2)
SampleOffsetPushedOutward(uv_centered, lensingStrength, r2) ==
    Scale2(uv_centered, RAdd(Num(1), RDiv(lensingStrength, r2)))

\* sample_offset_from_bh_center = uv_centered * (1.0 - lensingStrength / r2)
SampleOffsetFromBhCenter(uv_centered, lensingStrength, r2) ==
    Scale2(uv_centered, RSub(Num(1), RDiv(lensingStrength, r2)))

\* the offset left in aspect-corrected units
KeepAspectCorrected(offset, aspect) == offset

\* sample_offset_from_bh_center.x /= aspect
DeCorrectAspect(offset, aspect) == <<RDiv(offset[1], aspect), offset[2]>>

\* vec4(0.0, 0.0, 0.0, 1.0)
Absorbed == <<0, 0, 0, 1>>

NotComputed == [bhUv |-> <<NonFinite, NonFinite>>, uv_centered |-> <<NonFinite, NonFinite>>, r2 |-> NonFinite]

\* one invocation of the fragment shader: the branch taken, the values it
\* computed (remapUv is the coordinate before the drift is added, finalUv
\* with it), the coordinate handed to texture2D and gl_FragColor
main(u, uv) ==
    LET rayDir    == getRayDirection(uv, u.cameraWorldPosition, u.projectionMatrixInverse, u.viewMatrixInverse)
        rayOrigin == u.cameraWorldPosition
        L         == Sub3(u.blackHoleWorldPosition, rayOrigin)
        tcaNum    == dot3(L, rayDir.dir)
        d2        == ImpactSq(L, tcaNum, rayDir.len2)
        geom      == [behind |-> BehindRay(tcaNum), d2 |-> d2, L2 |-> dot3(L, L)]
    IN  IF BehindRay(tcaNum)
        THEN LET animatedBgUv == Add2(uv, drift(u.time))
             IN  [path |-> "behind", geom |-> geom, screen |-> NotComputed, remapUv |-> uv,
                  finalUv |-> animatedBgUv, sampleUv |-> fract2(animatedBgUv),
                  gl_FragColor |-> texture2D(fract2(animatedBgUv))]
        ELSE IF InsideEventHorizon(d2, u.eventHorizonRadius)
        THEN [path |-> "absorbed", geom |-> geom, screen |-> NotComputed, remapUv |-> uv,
              finalUv |-> uv, sampleUv |-> uv, gl_FragColor |-> Absorbed]
        ELSE LET bhClipPos   == ClipPosition(u.projectionMatrixInverse, u.viewMatrixInverse, u.blackHoleWorldPosition)
                 bhUv        == ScreenUv(bhClipPos)
                 aspect      == Rat(u.resolution[1], u.resolution[2])
                 uv_centered == UvCentered(uv, bhUv, aspect)
                 r2          == dot2(uv_centered, uv_centered)
                 screen      == [bhUv |-> bhUv, uv_centered |-> uv_centered, r2 |-> r2]
             IN  IF NearSingularity(r2)
                 THEN LET animatedDirectUv == Add2(uv, drift(u.time))
                      IN  [path |-> "fallback", geom |-> geom, screen |-> screen, remapUv |-> uv,
                           finalUv |-> animatedDirectUv, sampleUv |-> fract2(animatedDirectUv),
                           gl_FragColor |-> texture2D(fract2(animatedDirectUv))]
                 ELSE LET offset  == SampleOffsetFromBhCenter(uv_centered, u.lensingStrength, r2)
                          remapUv == Add2(bhUv, DeCorrectAspect(offset, aspect))
                          finalUv == Add2(remapUv, drift(u.time))
                      IN  [path |-> "lensed", geom |-> geom, screen |-> screen, remapUv |-> remapUv,
                           finalUv |-> finalUv, sampleUv |-> fract2(finalUv),
                           gl_FragColor |-> texture2D(fract2(finalUv))]

(***************************************************************************)
(* js/main.js: PARAMS and the page as init() finds it                      *)
(***************************************************************************)
\* PARAMS, the fields the model follows
DefaultParams ==
    [ lensingStrength       |-> <<1667, 50000>>,
      eventHorizonRadius    |-> <<169, 100>>,
      blackHoleZ            |-> <<-15, 1>>,
      cameraInitialZ        |-> 10,
      backgroundBrightness  |-> 1,
      animateBlackHole      |-> TRUE,
      bhAnimationRadius     |-> 2,
      animateBackground     |-> TRUE,
      showRays              |-> FALSE,
      numVisualizedRays     |-> 20,
      rayOriginRadiusFactor |-> <<3, 2>>,
      showLensingGraph      |-> FALSE,
      showBlackHoleMesh     |-> FALSE ]

\* setupScene: the camera at (0, 0, cameraInitialZ) looking down -Z, with the
\* window's aspect
SceneCamera(params, win) ==
    [ matrixWorld |-> [right |-> Vec3(1, 0, 0), up |-> Vec3(0, 1, 0), back |-> Vec3(0, 0, 1),
                       position |-> Vec3(0, 0, params.cameraInitialZ)],
      aspect      |-> win ]

\* setupScene: the mesh is built with a sphere of the event-horizon radius,
\* visible as every new object is, and added to the scene only if
\* showBlackHoleMesh is set at that moment
setupSceneMesh(params) ==
    [inScene |-> params.showBlackHoleMesh, visible |-> TRUE, radius |-> params.eventHorizonRadius]

\* updateBlackHoleMeshAppearance: the visible flag follows showBlackHoleMesh,
\* and a shown mesh gets a new sphere if its radius is not the current one
updateBlackHoleMeshAppearance(mesh, params) ==
    [ inScene |-> mesh.inScene,
      visible |-> params.showBlackHoleMesh,
      radius  |-> IF params.showBlackHoleMesh /\ mesh.radius # params.eventHorizonRadius
                  THEN params.eventHorizonRadius ELSE mesh.radius ]

\* the material before setupLensingEffect has built it
NoUniforms == [created |-> FALSE]

\* the page with the scene set up for a window, before anything is loaded
HostAfterSetupScene(win) ==
    /\ pc = "setupLensingEffect"
    /\ PARAMS = DefaultParams
    /\ camera = SceneCamera(DefaultParams, win)
    /\ controls = SceneCamera(DefaultParams, win).matrixWorld
    /\ windowSize = win
    /\ blackHoleMesh = <<Num(0), Num(0), DefaultParams.blackHoleZ>>
    /\ pointLight = <<Num(0), Num(0), DefaultParams.blackHoleZ>>
    /\ elapsedTime = 0
    /\ backgroundTexture = "none"
    /\ errorDiv = FALSE
    /\ done = <<>>
    /\ passReads = {}
    /\ frames = 0
    /\ events = 0
    /\ sceneMesh = setupSceneMesh(DefaultParams)

\* no ray line created, no graph drawn
NoOverlays ==
    /\ rayLinesGroup = <<>>
    /\ graphData = <<>>
    /\ canvas = [present |-> FALSE, curve |-> <<>>]

(***************************************************************************)
(* The inputs of one evaluation                                            *)
(***************************************************************************)
\* the quad's pixels lie on a grid of 2 * GridN + 1 points a side
GridN == 2

\* vUv of the full-screen quad: the grid, and the pixels 0.0008 and 0.3 to
\* the right of the screen centre
Pixels ==
    {<<Rat(i, 2 * GridN), Rat(j, 2 * GridN)>> : i \in 0 .. 2 * GridN, j \in 0 .. 2 * GridN}
        \cup {<<(<<313, 625>>), (<<1, 2>>)>>, <<(<<4, 5>>), (<<1, 2>>)>>}

\* camera.matrixWorld of a camera at pos that OrbitControls has turned to
\* look down -Z, down +Z or down -X
LookNegZ(pos) == [right |-> Vec3(1, 0, 0), up |-> Vec3(0, 1, 0), back |-> Vec3(0, 0, 1), position |-> pos]

LookPosZ(pos) == [right |-> Vec3(-1, 0, 0), up |-> Vec3(0, 1, 0), back |-> Vec3(0, 0, -1), position |-> pos]

LookNegX(pos) == [right |-> Vec3(0, 0, -1), up |-> Vec3(0, 1, 0), back |-> Vec3(1, 0, 0), position |-> pos]

\* the default scene; the black hole moved by its animation; the camera
\* orbited to the far side of the black hole, within and outside twice its
\* radius; the black hole in the camera's own plane
Scenes ==
    { [camera |-> LookNegZ(Vec3(0, 0, 10)), blackHole |-> Vec3(0, 0, -15)],
      [camera |-> LookNegZ(Vec3(0, 0, 10)), blackHole |-> Vec3(2, 3, -3)],
      [camera |-> LookPosZ(Vec3(0, 0, -13)), blackHole |-> Vec3(0, 0, -15)],
      [camera |-> LookPosZ(Vec3(0, 0, -13)), blackHole |-> Vec3(2, 0, -15)],
      [camera |-> LookNegX(Vec3(6, 0, 0)), blackHole |-> Vec3(6, 1, -15)] }

\* window.innerWidth and window.innerHeight, up to their common factor
Windows == {<<1, 1>>, <<2, 1>>, <<1, 2>>}

\* lensingStrength: no lensing, the default and the slider's maximum
Strengths == {<<0, 1>>, <<1667, 50000>>, <<1, 10>>}

\* eventHorizonRadius: the slider's minimum, the default and the slider's maximum
Radii == {<<1, 100>>, <<169, 100>>, <<5, 1>>}

Times == {0, 100, 400}

Brightnesses == {1, 2}

NotDrawn == [path |-> "none"]

\* the uniforms as updateLensingUniforms writes them from the camera, the
\* black hole mesh, the window and PARAMS
Uniforms(scene, window, strength, radius, time, brightness) ==
    [ time                    |-> time,
      backgroundBrightness    |-> brightness,
      lensingStrength         |-> strength,
      eventHorizonRadius      |-> radius,
      blackHoleWorldPosition  |-> scene.blackHole,
      viewMatrixInverse       |-> scene.camera,
      projectionMatrixInverse |-> ProjectionMatrixInverse(window),
      cameraWorldPosition     |-> scene.camera.position,
      resolution              |-> window ]

\* one evaluation: any of the uniform sets and pixels; the page's own
\* variables take no part in it and stay as setupScene left them
ShaderInit ==
    /\ \E scene \in Scenes, window \in Windows, strength \in Strengths,
          radius \in Radii, time \in Times, brightness \in Brightnesses :
          uniforms = Uniforms(scene, window, strength, radius, time, brightness)
    /\ vUv \in Pixels
    /\ fragment = NotDrawn
    /\ HostAfterSetupScene(<<1, 1>>)
    /\ NoOverlays

\* the GPU runs the fragment shader for the pixel
FragmentShader ==
    /\ fragment = NotDrawn
    /\ fragment' = main(uniforms, vUv)
    /\ UNCHANGED <<uniforms, vUv, hostVars, overlayVars, sceneMesh>>

ShaderNext == FragmentShader

ShaderSpec == ShaderInit /\ [][ShaderNext]_vars

(***************************************************************************)
(* Properties of one evaluation of the transform                           *)
(***************************************************************************)
\* the shader has run for the pixel
Drawn == fragment # NotDrawn

\* d < eventHorizonRadius, from the impact parameter the shader computed
BelowRadius == RLt(fragment.geom.d2, RMul(uniforms.eventHorizonRadius, uniforms.eventHorizonRadius))

\* resolution.x / resolution.y
Aspect == Rat(uniforms.resolution[1], uniforms.resolution[2])

\* the squared length of a screen-space vector
LengthSq(v) == dot2(v, v)

\* 0 <= x < 1
InUnitInterval(x) == RLe(Num(0), x) /\ RLt(x, Num(1))

C2_TransformTotal ==
    Drawn =>
        \/ fragment.gl_FragColor = Absorbed
        \/ Finite2(fragment.sampleUv) /\ fragment.gl_FragColor # Unspecified

\* C3: a pixel with the black hole behind its ray (tca < 0) whose camera is
\* within 2 x eventHorizonRadius of the black hole is not short-cut to the
\* unlensed background.
C3_MarginException ==
    (/\ Drawn
     /\ fragment.geom.behind
     /\ RLt(fragment.geom.L2, RMul(Num(4), RMul(uniforms.eventHorizonRadius, uniforms.eventHorizonRadius))))
        => fragment.path # "behind"

\* C4: with strength = 0, for every pixel that reaches the remap (tca >= 0,
\* d >= eventHorizonRadius, r2 >= 1e-6), the sample coordinate before drift
\* and wrap equals the pixel's own uv.
C4_ZeroStrengthIdentity ==
    (Drawn /\ uniforms.lensingStrength = Num(0) /\ fragment.path = "lensed")
        => fragment.remapUv = vUv

\* a pixel remapped with strength 0 and a finite black-hole projection
C4_Witness ==
    /\ Drawn
    /\ uniforms.lensingStrength = Num(0)
    /\ fragment.path = "lensed"
    /\ Finite(fragment.screen.r2)
    /\ fragment.remapUv = vUv

\* sampleOffset of the drawn pixel, were the strength s
SampleOffsetAt(s) ==
    SampleOffsetFromBhCenter(fragment.screen.uv_centered, s, fragment.screen.r2)

RAbs(p) == <<Abs(p[1]), p[2]>>

\* |v| < |w|, decided componentwise: neither component of v exceeds w's in
\* magnitude and one is strictly smaller (exact for parallel vectors, as the
\* offsets of one pixel are)
Shorter(v, w) ==
    /\ RLe(RAbs(v[1]), RAbs(w[1]))
    /\ RLe(RAbs(v[2]), RAbs(w[2]))
    /\ RLt(RAbs(v[1]), RAbs(w[1])) \/ RLt(RAbs(v[2]), RAbs(w[2]))

\* C5, as stated: with uv, the black hole's screen position and r2 held
\* fixed, the length of sampleOffset is monotonically increasing in strength
\* over all strength >= 0.
C5_OffsetIncreasingInStrength ==
    (Drawn /\ fragment.path = "lensed" /\ Finite(fragment.screen.r2)) =>
        \A s \in Strengths :
            RLt(uniforms.lensingStrength, s)
                => ~Shorter(SampleOffsetAt(s), SampleOffsetAt(uniforms.lensingStrength))

\* C5, amended: with uv, the black hole's screen position and r2 held fixed,
\* the length of sampleOffset is strictly decreasing in strength over
\* 0 <= strength <= r2 and strictly increasing over strength >= r2.
C5_OffsetDecreasingThenIncreasing ==
    (Drawn /\ fragment.path = "lensed" /\ Finite(fragment.screen.r2)) =>
        \A s \in Strengths :
            RLt(uniforms.lensingStrength, s) =>
                /\ RLe(s, fragment.screen.r2)
                    => Shorter(SampleOffsetAt(s), SampleOffsetAt(uniforms.lensingStrength))
                /\ RLe(fragment.screen.r2, uniforms.lensingStrength)
                    => Shorter(SampleOffsetAt(uniforms.lensingStrength), SampleOffsetAt(s))

\* a lensed pixel drawn with a positive strength above its r2, and a larger
\* strength to compare with
C5_Witness ==
    /\ Drawn
    /\ fragment.path = "lensed"
    /\ Finite(fragment.screen.r2)
    /\ \E s \in Strengths :
          /\ RLt(uniforms.lensingStrength, s)
          /\ RLe(fragment.screen.r2, uniforms.lensingStrength)
          /\ RLt(Num(0), uniforms.lensingStrength)

\* C6: every non-absorbed result is the background sample multiplied by the
\* background brightness.
C6_ScaledByBrightness ==
    (Drawn /\ fragment.gl_FragColor # Absorbed /\ Finite2(fragment.sampleUv)) =>
        LET sample == texture2D(fragment.sampleUv)
            b      == uniforms.backgroundBrightness
        IN  fragment.gl_FragColor = <<sample[1] * b, sample[2] * b, sample[3] * b, sample[4]>>

\* C7: in every non-absorbed path the coordinate used to sample the
\* background is the fractional part of the computed coordinate, and lies in
\* [0,1) x [0,1).
C7_SampleWrapped ==
    (Drawn /\ fragment.path # "absorbed") =>
        /\ fragment.sampleUv = fract2(fragment.finalUv)
        /\ InUnitInterval(fragment.sampleUv[1])
        /\ InUnitInterval(fragment.sampleUv[2])

\* a lensed pixel whose computed coordinate left [0,1) x [0,1) and was wrapped
C7_Witness ==
    /\ Drawn
    /\ fragment.path = "lensed"
    /\ Finite2(fragment.finalUv)
    /\ fragment.finalUv # fragment.sampleUv
    /\ InUnitInterval(fragment.sampleUv[1])
    /\ InUnitInterval(fragment.sampleUv[2])

\* C8: the transform never divides by a screen-space squared distance below
\* 1e-6: a pixel that is not absorbed, has the black hole ahead of its ray and
\* has r2 < 1e-6 skips the remap and returns the background sample at uv plus
\* drift.
C8_NoDivisionByNearZero ==
    Drawn =>
        /\ fragment.path = "lensed" => ~RLt(fragment.screen.r2, <<1, 1000000>>)
        /\ RLt(fragment.screen.r2, <<1, 1000000>>) =>
              /\ fragment.path = "fallback"
              /\ fragment.remapUv = vUv
              /\ fragment.sampleUv = fract2(Add2(vUv, drift(uniforms.time)))
              /\ fragment.gl_FragColor = texture2D(fragment.sampleUv)

\* a pixel off the black hole's projection by less than 0.001, outside the
\* event horizon
C8_Witness ==
    /\ Drawn
    /\ fragment.path = "fallback"
    /\ RLt(Num(0), fragment.screen.r2)
    /\ RLt(fragment.screen.r2, <<1, 1000000>>)

\* the squared aspect-corrected distance between two screen coordinates
AspectCorrectedDistSq(a, b) ==
    LET c == Sub2(a, b) IN LengthSq(<<RMul(c[1], Aspect), c[2]>>)

\* the squared deflection magnitude of a pixel uv sampled from remapUv, in
\* units of the strength (a common factor of every pixel's deflection)
DeflectionSq(remapUv, uv) ==
    LET c == Sub2(remapUv, uv)
        k == IF uniforms.lensingStrength = Num(0) THEN Num(1) ELSE RDiv(Num(1), uniforms.lensingStrength)
    IN  LengthSq(Scale2(<<RMul(c[1], Aspect), c[2]>>, k))

\* the black hole projects to the screen centre
Centered == fragment.screen.bhUv = <<(<<1, 2>>), (<<1, 2>>)>>

\* C9: for a centered black hole, any two lensed pixels at the same
\* aspect-corrected distance from its screen projection have the same
\* deflection magnitude, the aspect-corrected distance between the remapped
\* coordinate (before drift and wrap) and the pixel's uv.
C9_EqualDeflectionAtEqualDistance ==
    (Drawn /\ fragment.path = "lensed" /\ Centered) =>
        \A q \in Pixels :
            AspectCorrectedDistSq(q, fragment.screen.bhUv) = AspectCorrectedDistSq(vUv, fragment.screen.bhUv) =>
                LET other == main(uniforms, q)
                IN  other.path = "lensed" =>
                        DeflectionSq(other.remapUv, q) = DeflectionSq(fragment.remapUv, vUv)

\* two lensed pixels at the same distance from the centre that are not mirror
\* images of each other, deflected by a positive strength
C9_Witness ==
    /\ Drawn
    /\ fragment.path = "lensed"
    /\ Centered
    /\ RLt(Num(0), uniforms.lensingStrength)
    /\ \E q \in Pixels :
          /\ AspectCorrectedDistSq(q, fragment.screen.bhUv) = AspectCorrectedDistSq(vUv, fragment.screen.bhUv)
          /\ RAbs(q[1]) # RAbs(vUv[1])
          /\ RAbs(RSub(q[1], <<1, 2>>)) # RAbs(RSub(vUv[1], <<1, 2>>))
          /\ main(uniforms, q).path = "lensed"

\* the default scene: PARAMS' black hole, radius and strength, and the camera
\* as setupScene places it
DefaultScene ==
    /\ uniforms.blackHoleWorldPosition = Vec3(0, 0, -15)
    /\ uniforms.viewMatrixInverse = LookNegZ(Vec3(0, 0, 10))
    /\ uniforms.eventHorizonRadius = <<169, 100>>
    /\ uniforms.lensingStrength = <<1667, 50000>>

\* the pixel's aspect-corrected offset from the screen centre
OffsetFromScreenCentre ==
    LET c == Sub2(vUv, <<(<<1, 2>>), (<<1, 2>>)>>) IN <<RMul(c[1], Aspect), c[2]>>

\* C10: in the default scene the pixel at the centre of the black hole's
\* projection is absorbed, and the pixel at the aspect-corrected offset
\* (0.3, 0) from the screen centre is not absorbed and is sampled from a
\* finite coordinate at a strictly positive distance from its own uv.
C10_DefaultScene ==
    (Drawn /\ DefaultScene) =>
        /\ OffsetFromScreenCentre = <<Num(0), Num(0)>> => fragment.gl_FragColor = Absorbed
        /\ OffsetFromScreenCentre = <<(<<3, 10>>), Num(0)>> =>
              /\ fragment.path = "lensed"
              /\ fragment.gl_FragColor \notin {Absorbed, Unspecified}
              /\ Finite2(fragment.remapUv)
              /\ Finite2(fragment.sampleUv)
              /\ RLt(Num(0), AspectCorrectedDistSq(fragment.remapUv, vUv))

\* the default scene's pixel at the offset (0.3, 0), drawn
C10_Witness ==
    /\ Drawn
    /\ DefaultScene
    /\ OffsetFromScreenCentre = <<(<<3, 10>>), Num(0)>>
    /\ fragment.path = "lensed"

(***************************************************************************)
(* js/rayVisualizer.js                                                     *)
(***************************************************************************)
MAX_RAYS == 50

\* (cos, sin) of angle = (i / numRays) * 2 pi, for the ray counts whose
\* angles are multiples of a right angle
RayAngle(i, numRays) ==
    CASE numRays = 1 -> <<Num(1), Num(0)>>
      [] numRays = 2 -> IF i = 0 THEN <<Num(1), Num(0)>> ELSE <<Num(-1), Num(0)>>
      [] numRays = 4 -> CASE i = 0 -> <<Num(1), Num(0)>>
                          [] i = 1 -> <<Num(0), Num(1)>>
                          [] i = 2 -> <<Num(-1), Num(0)>>
                          [] i = 3 -> <<Num(0), Num(-1)>>

\* the black hole projected to window pixels, y down
getBlackHoleScreenPosition(blackHoleWorldPosition, cam, win) ==
    LET clip == ClipPosition(ProjectionMatrixInverse(cam.aspect), cam.matrixWorld, blackHoleWorldPosition)
    IN  <<RMul(RAdd(RMul(RDiv(clip.x, clip.w), <<1, 2>>), <<1, 2>>), Num(win[1])),
          RMul(RAdd(RMul(RDiv(clip.y, clip.w), <<-1, 2>>), <<1, 2>>), Num(win[2]))>>

\* the point of the window ray i is observed at, as a uv: reach pixels from
\* the black hole's projection, in the direction of the ray's angle
ObservedUv(i, numRays, params, cam, blackHoleWorldPosition, win) ==
    LET bhScreenPos     == getBlackHoleScreenPosition(blackHoleWorldPosition, cam, win)
        reach           == RMul(RMul(params.rayOriginRadiusFactor, params.eventHorizonRadius), Num(50))
        observedScreenX == RAdd(bhScreenPos[1], RMul(RayAngle(i, numRays)[1], reach))
        observedScreenY == RAdd(bhScreenPos[2], RMul(RayAngle(i, numRays)[2], reach))
    IN  <<RDiv(observedScreenX, Num(win[1])), RSub(Num(1), RDiv(observedScreenY, Num(win[2])))>>

\* impactParam^2 of ray i: the squared distance from the black hole to the
\* line from the camera through the observed point
RayImpactSq(i, numRays, params, cam, blackHoleWorldPosition, win) ==
    LET observed == {ObservedUv(i, numRays, params, cam, blackHoleWorldPosition, win)}
        impactOf == [observedUv \in observed |->
                        LET rayToObserver == getRayDirection(observedUv, cam.matrixWorld.position,
                                                 ProjectionMatrixInverse(cam.aspect), cam.matrixWorld)
                            L             == Sub3(blackHoleWorldPosition, cam.matrixWorld.position)
                        IN  ImpactSq(L, dot3(L, rayToObserver.dir), rayToObserver.len2)]
    IN  impactOf[CHOOSE observedUv \in observed : TRUE]

\* the slip of testing against the bare radius
TooCloseWithoutMargin(impactSq, eventHorizonRadius) ==
    /\ RLe(Num(0), impactSq)
    /\ RLt(impactSq, RMul(eventHorizonRadius, eventHorizonRadius))

\* impactParam < params.eventHorizonRadius * 1.1
TooClose(impactSq, eventHorizonRadius) ==
    LET limit == RMul(eventHorizonRadius, <<11, 10>>)
    IN  /\ RLe(Num(0), impactSq)
        /\ RLt(Num(0), limit)
        /\ RLt(impactSq, RMul(limit, limit))

\* an update that leaves the old lines as they are
HideNone(lines) == lines

\* child.visible = false for every line
HideAll(lines) == [k \in DOMAIN lines |-> [lines[k] EXCEPT !.visible = FALSE]]

\* impactParam^2 of each ray of the loop, by the ray's index
RayImpacts(numRays, params, cam, blackHoleWorldPosition, win) ==
    [i \in 0 .. numRays - 1 |-> RayImpactSq(i, numRays, params, cam, blackHoleWorldPosition, win)]

\* the rays of the loop that are not skipped, in the loop's order: a ray too
\* close to the black hole is passed over by the continue
DrawnRays(numRays, impacts, eventHorizonRadius) ==
    LET Drawn_(i) == ~TooClose(impacts[i], eventHorizonRadius)
    IN  SelectSeq([k \in 1 .. numRays |-> k - 1], Drawn_)

\* the pool after the loop: the ray drawn as the k-th takes the pool's k-th
\* line, made visible, or a new line added to the pool; the lines beyond
\* stay hidden
DrawRays(numRays, lines, impacts, eventHorizonRadius) ==
    LET rays   == DrawnRays(numRays, impacts, eventHorizonRadius)
        hidden == HideAll(lines)
        size   == IF Len(rays) > Len(lines) THEN Len(rays) ELSE Len(lines)
    IN  [k \in 1 .. size |->
            IF k <= Len(rays)
            THEN [visible |-> TRUE, ray |-> rays[k], impactSq |-> impacts[rays[k]]]
            ELSE hidden[k]]

\* the pool of lines after updateRayVisuals
updateRayVisuals(lines, params, cam, blackHoleWorldPosition, win) ==
    IF ~params.showRays THEN HideAll(lines)
    ELSE LET numRays == IF params.numVisualizedRays < MAX_RAYS THEN params.numVisualizedRays ELSE MAX_RAYS
         IN  CHOOSE pool \in {DrawRays(numRays, lines, impacts, params.eventHorizonRadius) :
                                 impacts \in {RayImpacts(numRays, params, cam, blackHoleWorldPosition, win)}} :
                    TRUE

(***************************************************************************)
(* js/graphManager.js                                                      *)
(***************************************************************************)
numPoints == 100

\* the slip of projecting the position itself, not a clone of it
AfterProjectInPlace(blackHoleWorldPosition, cam) ==
    LET clip == ClipPosition(ProjectionMatrixInverse(cam.aspect), cam.matrixWorld, blackHoleWorldPosition)
    IN  <<RDiv(clip.x, clip.w), RDiv(clip.y, clip.w), Num(1)>>

\* blackHoleWorldPosition after tempVector = blackHoleWorldPosition.clone();
\* tempVector.project(camera)
AfterProjectClone(blackHoleWorldPosition, cam) == blackHoleWorldPosition

\* point i of the curve: r_uv from 0.001 to 0.5, and lensingStrength / r_uv
GraphPoint(i, params) ==
    LET r_uv == RAdd(<<1, 1000>>, RMul(Rat(i, numPoints), RSub(<<1, 2>>, <<1, 1000>>)))
    IN  [x_uv |-> r_uv,
         y_deflection |-> IF RLt(Num(0), r_uv) THEN RDiv(params.lensingStrength, r_uv) ELSE Num(0)]

\* graphData after calculateGraphData
calculateGraphData(params, hasCanvas) ==
    IF ~hasCanvas \/ ~params.showLensingGraph THEN <<>>
    ELSE [k \in 1 .. numPoints + 1 |-> GraphPoint(k - 1, params)]

\* the curve as plotted: y clipped at 1.5 times the third largest value
PlottedCurve(data) ==
    LET third        == data[3].y_deflection
        practicalMaxY == IF third = Num(0) THEN <<1, 10>> ELSE RMul(third, <<3, 2>>)
    IN  [k \in DOMAIN data |->
            <<data[k].x_uv,
              IF RLt(practicalMaxY, data[k].y_deflection) THEN practicalMaxY ELSE data[k].y_deflection>>]

\* drawLensingGraph: it returns at once without a canvas or with the graph
\* switched off, else it recomputes the data and redraws the canvas
DrawLensingGraph ==
    /\ IF canvas.present /\ PARAMS.showLensingGraph
       THEN /\ graphData' = calculateGraphData(PARAMS, canvas.present)
            /\ canvas' = [canvas EXCEPT !.curve = PlottedCurve(graphData')]
            /\ blackHoleMesh' = AfterProjectClone(blackHoleMesh, camera)
       ELSE UNCHANGED <<graphData, canvas, blackHoleMesh>>
    /\ UNCHANGED <<shaderVars, pc, PARAMS, camera, controls, windowSize, pointLight, elapsedTime,
                   backgroundTexture, errorDiv, done, passReads, frames, events, rayLinesGroup,
                   sceneMesh>>

(***************************************************************************)
(* js/guiManager.js, js/animationManager.js, js/lensingEffect.js           *)
(***************************************************************************)
\* Math.round(value / step) * step
Snap(value, step) ==
    LET q == RDiv(value, step) IN RMul(Num((2 * q[1] + q[2]) \div (2 * q[2])), step)

Clamp(value, min, max) == IF RLt(value, min) THEN min ELSE IF RLt(max, value) THEN max ELSE value

\* a controller that snaps but does not clamp
SnapWithoutClamp(value, min, max, step) == Snap(value, step)

\* what a slider added with (min, max, step) stores for an entered value
SnapClamp(value, min, max, step) == Clamp(Snap(value, step), min, max)

\* sin(elapsedTime * bhAnimationSpeed) for the speed 0.1 at the clock
\* readings 0, 100 and 400, to the nearest 1/4
sinAnimation(t) == IF t = 0 THEN <<0, 1>> ELSE IF t = 100 THEN <<-1, 2>> ELSE <<3, 4>>

\* cos(elapsedTime * bhAnimationSpeed * 0.7), likewise
cosAnimation(t) == IF t = 0 THEN <<1, 1>> ELSE IF t = 100 THEN <<3, 4>> ELSE <<-1, 1>>

\* the slip of copying the position to the light before the mesh is moved
animateBlackHoleStaleLight(mesh, light, t, params) ==
    IF ~params.animateBlackHole THEN [blackHoleMesh |-> mesh, pointLight |-> light]
    ELSE [blackHoleMesh |-> <<RMul(sinAnimation(t), Num(params.bhAnimationRadius)),
                              RMul(RMul(cosAnimation(t), Num(params.bhAnimationRadius)), <<3, 5>>),
                              params.blackHoleZ>>,
          pointLight    |-> mesh]

\* the mesh and the light after animateBlackHole
animateBlackHole(mesh, light, t, params) ==
    IF ~params.animateBlackHole THEN [blackHoleMesh |-> mesh, pointLight |-> light]
    ELSE LET moved == <<RMul(sinAnimation(t), Num(params.bhAnimationRadius)),
                        RMul(RMul(cosAnimation(t), Num(params.bhAnimationRadius)), <<3, 5>>),
                        params.blackHoleZ>>
         IN  [blackHoleMesh |-> moved, pointLight |-> moved]

\* the uniforms setupLensingEffect creates the material with
InitialUniforms(params, cam, win) ==
    [ time                    |-> 0,
      backgroundBrightness    |-> params.backgroundBrightness,
      lensingStrength         |-> params.lensingStrength,
      eventHorizonRadius      |-> params.eventHorizonRadius,
      blackHoleWorldPosition  |-> <<Num(0), Num(0), params.blackHoleZ>>,
      viewMatrixInverse       |-> cam.matrixWorld,
      projectionMatrixInverse |-> ProjectionMatrixInverse(cam.aspect),
      cameraWorldPosition     |-> cam.matrixWorld.position,
      resolution              |-> win ]

\* an update that writes the clock reading whether or not the background is
\* animated
updateLensingUniformsAlwaysTimed(params, blackHoleWorldPosition, cam, time, win) ==
    [ time                    |-> time,
      backgroundBrightness    |-> params.backgroundBrightness,
      lensingStrength         |-> params.lensingStrength,
      eventHorizonRadius      |-> params.eventHorizonRadius,
      blackHoleWorldPosition  |-> blackHoleWorldPosition,
      viewMatrixInverse       |-> cam.matrixWorld,
      projectionMatrixInverse |-> ProjectionMatrixInverse(cam.aspect),
      cameraWorldPosition     |-> cam.matrixWorld.position,
      resolution              |-> win ]

\* an update that leaves the radius uniform as the material was created
updateLensingUniformsWithoutRadius(params, blackHoleWorldPosition, cam, time, win) ==
    [ time                    |-> IF params.animateBackground THEN time ELSE 0,
      backgroundBrightness    |-> params.backgroundBrightness,
      lensingStrength         |-> params.lensingStrength,
      eventHorizonRadius      |-> DefaultParams.eventHorizonRadius,
      blackHoleWorldPosition  |-> blackHoleWorldPosition,
      viewMatrixInverse       |-> cam.matrixWorld,
      projectionMatrixInverse |-> ProjectionMatrixInverse(cam.aspect),
      cameraWorldPosition     |-> cam.matrixWorld.position,
      resolution              |-> win ]

\* the uniforms after updateLensingUniforms: values copied from PARAMS, the
\* mesh position, the camera and the window
updateLensingUniforms(params, blackHoleWorldPosition, cam, time, win) ==
    [ time                    |-> IF params.animateBackground THEN time ELSE 0,
      backgroundBrightness    |-> params.backgroundBrightness,
      lensingStrength         |-> params.lensingStrength,
      eventHorizonRadius      |-> params.eventHorizonRadius,
      blackHoleWorldPosition  |-> blackHoleWorldPosition,
      viewMatrixInverse       |-> cam.matrixWorld,
      projectionMatrixInverse |-> ProjectionMatrixInverse(cam.aspect),
      cameraWorldPosition     |-> cam.matrixWorld.position,
      resolution              |-> win ]

(***************************************************************************)
(* js/main.js: init() and the animation loop                               *)
(***************************************************************************)
\* frames rendered and GUI, pointer and window events handled in one run
MaxFrames == 2

MaxEvents == 2

\* the order with the uniforms written before the black hole is animated
FrameOrderUniformsFirst ==
    <<"controls.update", "updateLensingUniforms", "animateBlackHole", "updateRayVisuals",
      "render", "updateInfoPanel">>

\* the calls of animate(), in the order it and updateGameLogic make them
FrameOrder ==
    <<"controls.update", "animateBlackHole", "updateLensingUniforms", "updateRayVisuals",
      "render", "updateInfoPanel">>

\* the position after a step of the frame; the frame's callback returns after
\* the last one
Following(step) ==
    LET k == CHOOSE n \in 1 .. Len(FrameOrder) : FrameOrder[n] = step
    IN  IF k = Len(FrameOrder) THEN "idle" ELSE FrameOrder[k + 1]

\* event listeners running in the middle of a frame's callback
AnyTimeInTheLoop(at) == at \in {FrameOrder[n] : n \in 1 .. Len(FrameOrder)} \cup {"idle"}

\* a listener runs only when no callback is running
BetweenFrames(at) == at = "idle"

\* a loop that asks for the next frame as the last statement of animate()
RequestedAfterTheWork(stepsDone) == Len(stepsDone) = Len(FrameOrder)

\* requestAnimationFrame(animate) is the first statement of animate(): the
\* next frame is requested whatever steps of the frame were run after it
RequestedFirst(stepsDone) == TRUE

\* the texture loader's rejection passed on to init()
RethrowTextureError == [backgroundTexture |-> "none", pc |-> "rejected"]

\* the catch around loadAsync: a grey canvas texture takes the galaxy's place
PlaceholderTexture == [backgroundTexture |-> "placeholder", pc |-> "fetchShaders"]

\* the pixels of the full-screen quad followed through a frame
FramePixels == {<<(<<0, 1>>), (<<0, 1>>)>>, <<(<<1, 2>>), (<<1, 2>>)>>}

\* window sizes, in pixels
FrameWindows == {<<1000, 1000>>, <<2000, 1000>>}

\* values typed into the sliders' number fields, some beyond the sliders' ends
StrengthInputs == {<<0, 1>>, <<1, 5>>}

RadiusInputs == {<<0, 1>>, <<10, 1>>}

ZInputs == {<<-3, 1>>}

\* where the pointer can have brought the camera
OrbitPoses == {LookPosZ(Vec3(0, 0, -13))}

\* await textureLoader.loadAsync(texturePath), inside its try
LoadTexture ==
    /\ pc = "setupLensingEffect"
    /\ \E loaded \in BOOLEAN :
          LET after == IF loaded THEN [backgroundTexture |-> "galaxy", pc |-> "fetchShaders"]
                       ELSE PlaceholderTexture
          IN  /\ backgroundTexture' = after.backgroundTexture
              /\ pc' = after.pc
    /\ UNCHANGED <<shaderVars, PARAMS, camera, controls, windowSize, blackHoleMesh, pointLight,
                   elapsedTime, errorDiv, done, passReads, frames, events, overlayVars, sceneMesh>>

\* the two fetches of the shader sources, outside the try, and the material
\* built from them
FetchShaders ==
    /\ pc = "fetchShaders"
    /\ \E fetched \in BOOLEAN :
          IF fetched
          THEN /\ uniforms' = InitialUniforms(PARAMS, camera, windowSize)
               /\ pc' = "finishInit"
          ELSE /\ uniforms' = uniforms
               /\ pc' = "rejected"
    /\ UNCHANGED <<vUv, fragment, PARAMS, camera, controls, windowSize, blackHoleMesh, pointLight,
                   elapsedTime, backgroundTexture, errorDiv, done, passReads, frames, events,
                   overlayVars, sceneMesh>>

\* the rest of init(): ray visualizer, info panel, composer, GUI, the resize
\* listener, updateBlackHoleMeshAppearance and the first call of animate()
FinishInit ==
    /\ pc = "finishInit"
    /\ sceneMesh' = updateBlackHoleMeshAppearance(sceneMesh, PARAMS)
    /\ pc' = "animate"
    /\ UNCHANGED <<shaderVars, PARAMS, camera, controls, windowSize, blackHoleMesh, pointLight,
                   elapsedTime, backgroundTexture, errorDiv, done, passReads, frames, events,
                   overlayVars>>

\* init().catch: the error is logged and shown in a red box on the page
InitCatch ==
    /\ pc = "rejected"
    /\ errorDiv' = TRUE
    /\ pc' = "failed"
    /\ UNCHANGED <<shaderVars, PARAMS, camera, controls, windowSize, blackHoleMesh, pointLight,
                   elapsedTime, backgroundTexture, done, passReads, frames, events, overlayVars, sceneMesh>>

\* animate(): the next frame is requested and the clock is read
Animate ==
    /\ pc = "animate"
    /\ \E t \in Times : t >= elapsedTime /\ elapsedTime' = t
    /\ done' = <<>>
    /\ passReads' = {}
    /\ pc' = FrameOrder[1]
    /\ UNCHANGED <<shaderVars, PARAMS, camera, controls, windowSize, blackHoleMesh, pointLight,
                   backgroundTexture, errorDiv, frames, events, overlayVars, sceneMesh>>

\* controls.update(): the camera takes the pose the controls hold
ControlsUpdate ==
    /\ pc = "controls.update"
    /\ camera' = [camera EXCEPT !.matrixWorld = controls]
    /\ done' = Append(done, "controls.update")
    /\ pc' = Following("controls.update")
    /\ UNCHANGED <<shaderVars, PARAMS, controls, windowSize, blackHoleMesh, pointLight, elapsedTime,
                   backgroundTexture, errorDiv, passReads, frames, events, overlayVars, sceneMesh>>

\* animateBlackHole(blackHoleMesh, pointLight, PARAMS, clock), which reads the
\* clock again
AnimateBlackHoleStep ==
    /\ pc = "animateBlackHole"
    /\ \E t \in Times :
          /\ t >= elapsedTime
          /\ LET after == animateBlackHole(blackHoleMesh, pointLight, t, PARAMS)
             IN  /\ blackHoleMesh' = after.blackHoleMesh
                 /\ pointLight' = after.pointLight
    /\ done' = Append(done, "animateBlackHole")
    /\ pc' = Following("animateBlackHole")
    /\ UNCHANGED <<shaderVars, PARAMS, camera, controls, windowSize, elapsedTime,
                   backgroundTexture, errorDiv, passReads, frames, events, overlayVars, sceneMesh>>

\* updateLensingUniforms(PARAMS, blackHoleMesh.position, camera, elapsedTime)
UpdateLensingUniforms ==
    /\ pc = "updateLensingUniforms"
    /\ uniforms' = updateLensingUniforms(PARAMS, blackHoleMesh, camera, elapsedTime, windowSize)
    /\ done' = Append(done, "updateLensingUniforms")
    /\ pc' = Following("updateLensingUniforms")
    /\ UNCHANGED <<vUv, fragment, PARAMS, camera, controls, windowSize, blackHoleMesh, pointLight,
                   elapsedTime, backgroundTexture, errorDiv, passReads, frames, events, overlayVars, sceneMesh>>

\* updateRayVisuals, or every line hidden when the rays are switched off
UpdateRayVisualsStep ==
    /\ pc = "updateRayVisuals"
    /\ rayLinesGroup' = updateRayVisuals(rayLinesGroup, PARAMS, camera, blackHoleMesh, windowSize)
    /\ done' = Append(done, "updateRayVisuals")
    /\ pc' = Following("updateRayVisuals")
    /\ UNCHANGED <<shaderVars, PARAMS, camera, controls, windowSize, blackHoleMesh, pointLight,
                   elapsedTime, backgroundTexture, errorDiv, passReads, frames, events,
                   graphData, canvas, sceneMesh>>

\* composer.render(): the GPU starts the fragment shader for a pixel with the
\* uniforms as they are (what main computes from them is FragmentShader)
RenderPixel ==
    /\ pc = "render"
    /\ \E p \in FramePixels :
          /\ \A r \in passReads : r[1] # p
          /\ passReads' = passReads \cup {<<p, uniforms>>}
          /\ vUv' = p
    /\ UNCHANGED <<uniforms, fragment, pc, PARAMS, camera, controls, windowSize, blackHoleMesh, pointLight,
                   elapsedTime, backgroundTexture, errorDiv, done, frames, events, overlayVars, sceneMesh>>

\* the pass is over once every pixel is drawn
RenderDone ==
    /\ pc = "render"
    /\ \A p \in FramePixels : \E r \in passReads : r[1] = p
    /\ done' = Append(done, "render")
    /\ pc' = Following("render")
    /\ UNCHANGED <<shaderVars, PARAMS, camera, controls, windowSize, blackHoleMesh, pointLight,
                   elapsedTime, backgroundTexture, errorDiv, passReads, frames, events, overlayVars, sceneMesh>>

\* updateInfoPanel only reads; the callback returns
UpdateInfoPanel ==
    /\ pc = "updateInfoPanel"
    /\ done' = Append(done, "updateInfoPanel")
    /\ pc' = Following("updateInfoPanel")
    /\ frames' = frames + 1
    /\ UNCHANGED <<shaderVars, PARAMS, camera, controls, windowSize, blackHoleMesh, pointLight,
                   elapsedTime, backgroundTexture, errorDiv, passReads, events, overlayVars, sceneMesh>>

\* the browser calls the requested animate()
NextFrame ==
    /\ pc = "idle"
    /\ RequestedFirst(done)
    /\ frames < MaxFrames
    /\ pc' = "animate"
    /\ UNCHANGED <<shaderVars, PARAMS, camera, controls, windowSize, blackHoleMesh, pointLight,
                   elapsedTime, backgroundTexture, errorDiv, done, passReads, frames, events,
                   overlayVars, sceneMesh>>

\* the lensingStrength slider
GuiLensingStrength ==
    /\ BetweenFrames(pc) /\ events < MaxEvents
    /\ \E value \in StrengthInputs :
          PARAMS' = [PARAMS EXCEPT !.lensingStrength =
                        SnapClamp(value, <<1, 100000>>, <<1, 10>>, <<1, 100000>>)]
    /\ events' = events + 1
    /\ UNCHANGED <<shaderVars, pc, camera, controls, windowSize, blackHoleMesh, pointLight,
                   elapsedTime, backgroundTexture, errorDiv, done, passReads, frames, overlayVars, sceneMesh>>

\* the eventHorizonRadius slider; its onChange updates the mesh's appearance
GuiEventHorizonRadius ==
    /\ BetweenFrames(pc) /\ events < MaxEvents
    /\ \E value \in RadiusInputs :
          PARAMS' = [PARAMS EXCEPT !.eventHorizonRadius =
                        SnapClamp(value, <<1, 100>>, <<5, 1>>, <<1, 100>>)]
    /\ sceneMesh' = updateBlackHoleMeshAppearance(sceneMesh, PARAMS')
    /\ events' = events + 1
    /\ UNCHANGED <<shaderVars, pc, camera, controls, windowSize, blackHoleMesh, pointLight,
                   elapsedTime, backgroundTexture, errorDiv, done, passReads, frames, overlayVars>>

\* the showBlackHoleMesh checkbox; its onChange updates the mesh's appearance
GuiShowBlackHoleMesh ==
    /\ BetweenFrames(pc) /\ events < MaxEvents
    /\ PARAMS' = [PARAMS EXCEPT !.showBlackHoleMesh = ~PARAMS.showBlackHoleMesh]
    /\ sceneMesh' = updateBlackHoleMeshAppearance(sceneMesh, PARAMS')
    /\ events' = events + 1
    /\ UNCHANGED <<shaderVars, pc, camera, controls, windowSize, blackHoleMesh, pointLight,
                   elapsedTime, backgroundTexture, errorDiv, done, passReads, frames, overlayVars>>

\* the blackHoleZ slider: its onChange moves the mesh, not the light
GuiBlackHoleZ ==
    /\ BetweenFrames(pc) /\ events < MaxEvents
    /\ \E value \in ZInputs :
          LET z == SnapClamp(value, <<-200, 1>>, <<-1, 1>>, <<1, 10>>)
          IN  /\ PARAMS' = [PARAMS EXCEPT !.blackHoleZ = z]
              /\ blackHoleMesh' = [blackHoleMesh EXCEPT ![3] = z]
    /\ events' = events + 1
    /\ UNCHANGED <<shaderVars, pc, camera, controls, windowSize, pointLight,
                   elapsedTime, backgroundTexture, errorDiv, done, passReads, frames, overlayVars, sceneMesh>>

\* the animateBlackHole checkbox
GuiAnimateBlackHole ==
    /\ BetweenFrames(pc) /\ events < MaxEvents
    /\ PARAMS' = [PARAMS EXCEPT !.animateBlackHole = ~PARAMS.animateBlackHole]
    /\ events' = events + 1
    /\ UNCHANGED <<shaderVars, pc, camera, controls, windowSize, blackHoleMesh, pointLight,
                   elapsedTime, backgroundTexture, errorDiv, done, passReads, frames, overlayVars, sceneMesh>>

\* the animateBackground checkbox
GuiAnimateBackground ==
    /\ BetweenFrames(pc) /\ events < MaxEvents
    /\ PARAMS' = [PARAMS EXCEPT !.animateBackground = ~PARAMS.animateBackground]
    /\ events' = events + 1
    /\ UNCHANGED <<shaderVars, pc, camera, controls, windowSize, blackHoleMesh, pointLight,
                   elapsedTime, backgroundTexture, errorDiv, done, passReads, frames, overlayVars, sceneMesh>>

\* onWindowResize: the camera's aspect and the resolution uniform follow the window
onWindowResize ==
    /\ BetweenFrames(pc) /\ events < MaxEvents
    /\ \E win \in FrameWindows \ {windowSize} :
          /\ windowSize' = win
          /\ camera' = [camera EXCEPT !.aspect = win]
          /\ uniforms' = [uniforms EXCEPT !.resolution = win]
    /\ events' = events + 1
    /\ UNCHANGED <<vUv, fragment, pc, PARAMS, controls, blackHoleMesh, pointLight,
                   elapsedTime, backgroundTexture, errorDiv, done, passReads, frames, overlayVars, sceneMesh>>

\* the pointer drags the view: OrbitControls holds the new pose until its update
OrbitInput ==
    /\ BetweenFrames(pc) /\ events < MaxEvents
    /\ \E pose \in OrbitPoses \ {controls} : controls' = pose
    /\ events' = events + 1
    /\ UNCHANGED <<shaderVars, pc, PARAMS, camera, windowSize, blackHoleMesh, pointLight,
                   elapsedTime, backgroundTexture, errorDiv, done, passReads, frames, overlayVars, sceneMesh>>

FrameInit ==
    /\ uniforms = NoUniforms
    /\ vUv = <<(<<0, 1>>), (<<0, 1>>)>>
    /\ fragment = NotDrawn
    /\ HostAfterSetupScene(<<1000, 1000>>)
    /\ NoOverlays

FrameNext ==
    \/ LoadTexture \/ FetchShaders \/ FinishInit \/ InitCatch
    \/ Animate \/ ControlsUpdate \/ AnimateBlackHoleStep \/ UpdateLensingUniforms
    \/ UpdateRayVisualsStep \/ RenderPixel \/ RenderDone \/ UpdateInfoPanel \/ NextFrame
    \/ GuiLensingStrength \/ GuiEventHorizonRadius \/ GuiBlackHoleZ \/ GuiShowBlackHoleMesh
    \/ GuiAnimateBlackHole \/ GuiAnimateBackground \/ onWindowResize \/ OrbitInput

FrameSpec == FrameInit /\ [][FrameNext]_vars

\* an exception in a step of the frame: the callback ends there, the steps
\* after it are not run
FrameThrows ==
    /\ pc \in {FrameOrder[n] : n \in 1 .. Len(FrameOrder)}
    /\ pc' = "idle"
    /\ UNCHANGED <<shaderVars, PARAMS, camera, controls, windowSize, blackHoleMesh, pointLight,
                   elapsedTime, backgroundTexture, errorDiv, done, passReads, frames, events,
                   overlayVars, sceneMesh>>

\* init() and the loop with no user at the page: a listener neither requests
\* nor cancels a frame
LoopNext ==
    \/ LoadTexture \/ FetchShaders \/ FinishInit \/ InitCatch
    \/ Animate \/ ControlsUpdate \/ AnimateBlackHoleStep \/ UpdateLensingUniforms
    \/ UpdateRayVisualsStep \/ RenderPixel \/ RenderDone \/ UpdateInfoPanel \/ NextFrame
    \/ FrameThrows

\* the page with frames that can fail; the browser runs a requested
\* animation frame callback
LoopSpec ==
    /\ FrameInit
    /\ [][LoopNext]_vars
    /\ WF_vars(NextFrame)

(***************************************************************************)
(* Claims about the frame loop, checked under FrameSpec                    *)
(***************************************************************************)
\* the steps of the frame whose callback is running that are over
Done(step) == \E n \in 1 .. Len(done) : done[n] = step

\* the uniforms every evaluation of the pass so far started with
Snapshots == {r[2] : r \in passReads}

\* C11: within one frame every per-pixel evaluation reads the same uniforms,
\* the ones updateLensingUniforms wrote earlier in that frame from PARAMS, the
\* mesh, the camera, the window and the clock reading; nothing writes them
\* during the pass; and a change of PARAMS, of the mesh position or of the
\* camera's pose does not show in them (they hold copies) until the next write
C11_OneSnapshotPerFrame ==
    [][ /\ (pc' \in {"render", "updateInfoPanel"})
            => /\ Done("updateLensingUniforms")'
               /\ Snapshots' \subseteq {uniforms'}
               /\ uniforms' = updateLensingUniforms(PARAMS', blackHoleMesh', camera', elapsedTime', windowSize')
        /\ (pc = "render") => (uniforms' = uniforms)
        /\ (PARAMS' # PARAMS \/ blackHoleMesh' # blackHoleMesh \/ camera'.matrixWorld # camera.matrixWorld)
            => (uniforms' = uniforms)
      ]_vars

\* a frame's pass over, both pixels read, in a frame after a GUI change
C11_Witness ==
    /\ pc = "updateInfoPanel"
    /\ Cardinality(passReads) = Cardinality(FramePixels)
    /\ frames >= 1
    /\ uniforms.lensingStrength # DefaultParams.lensingStrength

\* C12: when a frame renders, the calls made before it in that frame were,
\* in this order, the controls' update, the black hole animator and the
\* uniform update, so the black hole position and the camera matrices the
\* render uses are the ones the mesh and the camera hold in that frame
C12_RenderAfterUpdates ==
    (pc \in {"render", "updateInfoPanel"})
        => /\ Len(done) >= 3
           /\ done[1] = "controls.update"
           /\ done[2] = "animateBlackHole"
           /\ done[3] = "updateLensingUniforms"
           /\ camera.matrixWorld = controls
           /\ uniforms.blackHoleWorldPosition = blackHoleMesh
           /\ uniforms.viewMatrixInverse = camera.matrixWorld
           /\ uniforms.cameraWorldPosition = camera.matrixWorld.position
           /\ uniforms.projectionMatrixInverse = ProjectionMatrixInverse(camera.aspect)

\* a later frame rendering with the black hole moved off the axis and the
\* camera orbited since the frame before
C12_Witness ==
    /\ pc = "render"
    /\ frames >= 1
    /\ blackHoleMesh[1] # <<0, 1>>
    /\ uniforms.viewMatrixInverse # SceneCamera(DefaultParams, windowSize).matrixWorld

\* C13: a failed load of the background texture leaves the placeholder
\* texture in its place and setupLensingEffect carries on; once the shaders
\* are fetched the material exists, and init() goes on to call animate(); no
\* frame runs without a texture or without the material
C13_PlaceholderKeepsInitGoing ==
    [][ /\ (pc = "setupLensingEffect" /\ backgroundTexture' # "galaxy")
            => (backgroundTexture' = "placeholder" /\ pc' = "fetchShaders" /\ ~errorDiv')
        /\ (pc = "fetchShaders" /\ pc' # "rejected")
            => (pc' = "finishInit" /\ uniforms' = InitialUniforms(PARAMS, camera, windowSize))
        /\ (pc = "finishInit") => (pc' = "animate")
        /\ (pc' \in {FrameOrder[n] : n \in 1 .. Len(FrameOrder)})
            => (backgroundTexture' \in {"galaxy", "placeholder"} /\ uniforms' # NoUniforms /\ ~errorDiv')
      ]_vars

\* a frame rendering the placeholder
C13_Witness ==
    /\ backgroundTexture = "placeholder"
    /\ pc = "render"
    /\ uniforms # NoUniforms
    /\ ~errorDiv

\* C14: no failure, in init() or in a frame, ends with a failure shown on the
\* page: the error box of init().catch is never added
C14_NoFailureShown == ~errorDiv

\* C15: in every frame, the first one included and whatever was entered in
\* the GUI before it, the lensing strength the pass reads lies in
\* [0.00001, 0.1] and the event-horizon radius in [0.01, 5.0]; so the
\* strength is not negative and the radius is positive
C15_UniformsInValidatedRanges ==
    \A r \in passReads :
        /\ RLe(<<1, 100000>>, r[2].lensingStrength) /\ RLe(r[2].lensingStrength, <<1, 10>>)
        /\ RLe(<<1, 100>>, r[2].eventHorizonRadius) /\ RLe(r[2].eventHorizonRadius, <<5, 1>>)
        /\ RLe(Num(0), r[2].lensingStrength)
        /\ RLt(Num(0), r[2].eventHorizonRadius)

\* a pass reading a strength and a radius that were entered beyond the
\* sliders' ends: 0.2 stored as 0.1, 0 stored as 0.01
C15_Witness ==
    \E r \in passReads :
        /\ r[2].lensingStrength = <<1, 10>>
        /\ r[2].eventHorizonRadius = <<1, 100>>

\* C16: an animator step that moves the black hole leaves the point light at
\* the black hole's new position, in x, y and z
C16_LightFollowsBlackHole ==
    [][ (pc = "animateBlackHole" /\ blackHoleMesh' # blackHoleMesh)
            => (pointLight' = blackHoleMesh')
      ]_vars

\* the animator has just moved the black hole off the axis, at the depth the
\* GUI set, and the light is there
C16_Witness ==
    /\ pc = "updateLensingUniforms"
    /\ blackHoleMesh[1] # <<0, 1>>
    /\ blackHoleMesh[3] = <<-3, 1>>
    /\ pointLight = blackHoleMesh

(***************************************************************************)
(* The ray visualizer's update, from the states a frame can bring to it    *)
(***************************************************************************)
\* numVisualizedRays as the GUI can set it
RayCounts == {1, 2, 4}

\* rayOriginRadiusFactor: the slider's minimum, 0.7 and the default
RayFactors == {<<1, 2>>, <<7, 10>>, <<3, 2>>}

\* window sizes, in pixels
RayWindows == {<<1000, 1000>>, <<1250, 1250>>, <<2000, 1000>>}

\* the pool as earlier updates can have left it: empty, or with lines of
\* rays drawn under other settings, shown or hidden
RayPools ==
    {<<>>} \cup
    {[k \in 1 .. n |-> [visible |-> v, ray |-> k - 1, impactSq |-> <<100, 1>>]] :
        n \in {2, 4}, v \in BOOLEAN}

\* PARAMS after the GUI set the ray controls, the event-horizon radius and
\* the animation's radius, this one to 5
RayParams(show, count, factor, radius) ==
    [DefaultParams EXCEPT !.showRays = show, !.numVisualizedRays = count,
                          !.rayOriginRadiusFactor = factor, !.eventHorizonRadius = radius,
                          !.bhAnimationRadius = 5]

\* a frame of the running loop that has reached its updateRayVisuals call:
\* the animator has placed the black hole at the top of its path (the clock
\* reading 0 of the table) and the uniforms are written
RayInit ==
    \E show \in BOOLEAN, count \in RayCounts, factor \in RayFactors, radius \in Radii \ {<<1, 100>>},
       win \in RayWindows, lines \in RayPools :
        LET params == RayParams(show, count, factor, radius)
            onAxis == <<Num(0), Num(0), params.blackHoleZ>>
            placed == animateBlackHole(onAxis, onAxis, 0, params)
        IN  /\ PARAMS = params
            /\ camera = SceneCamera(params, win)
            /\ controls = SceneCamera(params, win).matrixWorld
            /\ windowSize = win
            /\ blackHoleMesh = placed.blackHoleMesh
            /\ pointLight = placed.pointLight
            /\ uniforms = updateLensingUniforms(params, placed.blackHoleMesh, SceneCamera(params, win), 0, win)
            /\ rayLinesGroup = lines
            /\ pc = "updateRayVisuals"
            /\ done = <<"controls.update", "animateBlackHole", "updateLensingUniforms">>
            /\ elapsedTime = 0
            /\ backgroundTexture = "galaxy"
            /\ errorDiv = FALSE
            /\ passReads = {}
            /\ frames = 1
            /\ events = MaxEvents
            /\ vUv = <<(<<0, 1>>), (<<0, 1>>)>>
            /\ fragment = NotDrawn
            /\ graphData = <<>>
            /\ canvas = [present |-> FALSE, curve |-> <<>>]
            /\ sceneMesh = updateBlackHoleMeshAppearance(setupSceneMesh(DefaultParams), params)

RayNext == UpdateRayVisualsStep

RaySpec == RayInit /\ [][RayNext]_vars

\* the lines of the pool that are shown
VisibleLines == {k \in DOMAIN rayLinesGroup : rayLinesGroup[k].visible}

\* the rays of this update whose impact parameter is below 1.1 times the
\* event-horizon radius
AbsorbedRays ==
    {i \in 0 .. PARAMS.numVisualizedRays - 1 :
        LET d2 == RayImpactSq(i, PARAMS.numVisualizedRays, PARAMS, camera, blackHoleMesh, windowSize)
        IN  RLt(d2, RMul(<<121, 100>>, RMul(PARAMS.eventHorizonRadius, PARAMS.eventHorizonRadius)))}

\* C17: an update with the rays switched on ends with no shown line being
\* the line of a ray whose impact parameter is below 1.1 x eventHorizonRadius,
\* and with no line added to the pool for such a ray: the shown lines are as
\* many as the rays that are not absorbed, and the pool grew only if those
\* outnumber the lines it had
C17_AbsorbedRaysNotDrawn ==
    [][ (pc = "updateRayVisuals" /\ PARAMS.showRays)
            => LET drawn == PARAMS.numVisualizedRays - Cardinality(AbsorbedRays)
               IN  /\ \A k \in VisibleLines' : rayLinesGroup'[k].ray \notin AbsorbedRays
                   /\ Cardinality(VisibleLines') = drawn
                   /\ Len(rayLinesGroup') = IF drawn > Len(rayLinesGroup) THEN drawn ELSE Len(rayLinesGroup)
      ]_vars

\* an update that skipped a ray within the margin but outside the event
\* horizon, with a pool of four lines left from earlier updates
C17_Witness ==
    /\ pc = "render" /\ PARAMS.showRays
    /\ \E i \in AbsorbedRays :
          RLe(RMul(PARAMS.eventHorizonRadius, PARAMS.eventHorizonRadius),
              RayImpactSq(i, PARAMS.numVisualizedRays, PARAMS, camera, blackHoleMesh, windowSize))
    /\ Len(rayLinesGroup) = 4
    /\ Cardinality(VisibleLines) < PARAMS.numVisualizedRays

(***************************************************************************)
(* The deflection graph, drawn between two frames of the running loop      *)
(***************************************************************************)
\* where the animator or the GUI can have left the black hole
GraphBlackHoles == {Vec3(0, 0, -15), Vec3(0, 3, -15), Vec3(2, 3, -3)}

\* graphData as an earlier drawing left it: nothing, or the curve for the
\* strength 0.02
GraphDataBefore ==
    {<<>>, calculateGraphData([DefaultParams EXCEPT !.showLensingGraph = TRUE,
                                                    !.lensingStrength = <<1, 50>>], TRUE)}

\* the loop between two frames, with the graph switched on or off, with or
\* without its canvas on the page
GraphInit ==
    \E show \in BOOLEAN, present \in BOOLEAN, strength \in Strengths, position \in GraphBlackHoles,
       win \in FrameWindows, data \in GraphDataBefore :
        LET params == [DefaultParams EXCEPT !.showLensingGraph = show, !.lensingStrength = strength]
        IN  /\ PARAMS = params
            /\ camera = SceneCamera(params, win)
            /\ controls = SceneCamera(params, win).matrixWorld
            /\ windowSize = win
            /\ blackHoleMesh = position
            /\ pointLight = position
            /\ uniforms = updateLensingUniforms(params, position, SceneCamera(params, win), 0, win)
            /\ graphData = data
            /\ canvas = [present |-> present, curve |-> IF data = <<>> THEN <<>> ELSE PlottedCurve(data)]
            /\ rayLinesGroup = <<>>
            /\ pc = "idle"
            /\ done = FrameOrder
            /\ elapsedTime = 0
            /\ backgroundTexture = "galaxy"
            /\ errorDiv = FALSE
            /\ passReads = {}
            /\ frames = 1
            /\ events = MaxEvents
            /\ vUv = <<(<<0, 1>>), (<<0, 1>>)>>
            /\ fragment = NotDrawn
            /\ sceneMesh = updateBlackHoleMeshAppearance(setupSceneMesh(DefaultParams), params)

GraphNext == DrawLensingGraph

GraphSpec == GraphInit /\ [][GraphNext]_vars

\* C18: drawing the graph leaves the lensing parameters, the black hole's
\* position, the light, the camera, the window and the uniforms as they
\* were; it changes only graphData and the canvas, and the data it leaves are
\* the 101 points of lensingStrength / r for r from 0.001 to 0.5
C18_GraphHasNoFeedback ==
    [][ /\ UNCHANGED <<PARAMS, blackHoleMesh, pointLight, camera, controls, windowSize, uniforms>>
        /\ (graphData' # graphData)
            => /\ Len(graphData') = 101
               /\ graphData'[1].x_uv = <<1, 1000>>
               /\ graphData'[101].x_uv = <<1, 2>>
               /\ \A k \in 1 .. 101 :
                     RMul(graphData'[k].y_deflection, graphData'[k].x_uv) = PARAMS.lensingStrength
      ]_vars

\* the graph drawn for the default strength with the black hole off the axis
C18_Witness ==
    /\ PARAMS.showLensingGraph /\ canvas.present
    /\ PARAMS.lensingStrength = DefaultParams.lensingStrength
    /\ Len(graphData) = 101
    /\ graphData[1].y_deflection = RMul(DefaultParams.lensingStrength, Num(1000))
    /\ Len(canvas.curve) = 101
    /\ blackHoleMesh = Vec3(2, 3, -3)

(***************************************************************************)
(* Claims about the drift and the wrap, checked under ShaderSpec           *)
(***************************************************************************)
\* C19: in each of the three paths that sample the background (black hole
\* behind the ray, r2 fallback, lensed remap) the computed coordinate is the
\* coordinate before the drift plus (sin(time * 0.01), cos(time * 0.015)) * 0.005,
\* a vector fixed by the time uniform alone, whatever the pixel
C19_DriftFromTimeOnly ==
    (Drawn /\ fragment.path \in {"behind", "fallback", "lensed"})
        => /\ fragment.finalUv[1] = RAdd(fragment.remapUv[1], RMul(sin001(uniforms.time), <<5, 1000>>))
           /\ fragment.finalUv[2] = RAdd(fragment.remapUv[2], RMul(cos0015(uniforms.time), <<5, 1000>>))
           /\ (fragment.path # "lensed") => (fragment.remapUv = vUv)

\* a lensed pixel away from the screen centre at time 100, drifted in both axes
C19_Witness ==
    /\ Drawn
    /\ fragment.path = "lensed"
    /\ uniforms.time = 100
    /\ vUv # <<(<<1, 2>>), (<<1, 2>>)>>
    /\ Finite2(fragment.finalUv)
    /\ fragment.finalUv[1] # fragment.remapUv[1]
    /\ fragment.finalUv[2] # fragment.remapUv[2]

\* C20: the wrapped coordinate of a computed (finite) coordinate uv and of
\* uv + (1,1) are equal, and so are the colours sampled at the two
C20_SamplingPeriodic ==
    (Drawn /\ fragment.path # "absorbed" /\ Finite2(fragment.finalUv))
        => LET shifted == Add2(fragment.finalUv, <<Num(1), Num(1)>>)
           IN  /\ fract2(shifted) = fract2(fragment.finalUv)
               /\ fract2(shifted) = fragment.sampleUv
               /\ texture2D(fract2(shifted)) = fragment.gl_FragColor

\* a computed coordinate left of the texture, so that neither it nor its
\* shift by (1,1) is its own wrapped coordinate
C20_Witness ==
    /\ Drawn
    /\ fragment.path # "absorbed"
    /\ Finite2(fragment.finalUv)
    /\ RLt(fragment.finalUv[1], Num(-1))
    /\ fragment.gl_FragColor = texture2D(fract2(Add2(fragment.finalUv, <<Num(1), Num(1)>>)))

(***************************************************************************)
(* The direction of the remap                                              *)
(***************************************************************************)
\* C21: the remap is purely radial in raw UV space: for every lensed pixel
\* the remapped coordinate (before drift and wrap) minus bhUv equals
\* uv - bhUv scaled by the single scalar 1 - strength / r2.
C21_RemapPurelyRadial ==
    (Drawn /\ fragment.path = "lensed") =>
        LET bhUv   == fragment.screen.bhUv
            scalar == RSub(Num(1), RDiv(uniforms.lensingStrength, fragment.screen.r2))
            offset == Sub2(fragment.remapUv, bhUv)
        IN  /\ Finite2(offset)
            /\ offset = Scale2(Sub2(vUv, bhUv), scalar)

\* a lensed pixel off the black hole's projection in x and in y, on a window
\* that is not square, remapped radially by a positive strength
C21_Witness ==
    /\ Drawn
    /\ fragment.path = "lensed"
    /\ Aspect # Num(1)
    /\ RLt(Num(0), uniforms.lensingStrength)
    /\ Finite(fragment.screen.r2)
    /\ vUv[1] # fragment.screen.bhUv[1]
    /\ vUv[2] # fragment.screen.bhUv[2]
    /\ Sub2(fragment.remapUv, fragment.screen.bhUv)
          = Scale2(Sub2(vUv, fragment.screen.bhUv),
                   RSub(Num(1), RDiv(uniforms.lensingStrength, fragment.screen.r2)))

\* the remapped coordinate of the drawn pixel relative to bhUv, and the
\* pixel's own uv relative to bhUv
SampleFromCenter == Sub2(fragment.remapUv, fragment.screen.bhUv)

PixelFromCenter == Sub2(vUv, fragment.screen.bhUv)

\* v points the way w does (TRUE) or against it (FALSE), component by component
SameSide(v, w, same) ==
    \A i \in 1 .. 2 :
        /\ Finite(v[i]) /\ Finite(w[i])
        /\ \/ v[i][1] = 0
           \/ w[i][1] = 0
           \/ (v[i][1] > 0) = IF same THEN w[i][1] > 0 ELSE w[i][1] < 0

\* C22: for a lensed pixel with r2 > strength the sample point lies on the
\* same side of bhUv as the pixel and closer to bhUv, for r2 = strength it is
\* exactly bhUv, and for r2 < strength it lies on the opposite side of bhUv.
\* (An r2 that is not finite is the +inf of a division by bhClipPos.w = 0,
\* above every strength.)
C22_TowardAndThroughCenter ==
    (Drawn /\ fragment.path = "lensed") =>
        /\ (RLt(uniforms.lensingStrength, fragment.screen.r2) \/ ~Finite(fragment.screen.r2)) =>
              /\ SameSide(SampleFromCenter, PixelFromCenter, TRUE)
              /\ Shorter(SampleFromCenter, PixelFromCenter)
        /\ fragment.screen.r2 = uniforms.lensingStrength =>
              fragment.remapUv = fragment.screen.bhUv
        /\ RLt(fragment.screen.r2, uniforms.lensingStrength) =>
              /\ SameSide(SampleFromCenter, PixelFromCenter, FALSE)
              /\ SampleFromCenter # <<Num(0), Num(0)>>

\* a lensed pixel with r2 below a positive strength, sampled from the far
\* side of the black hole's projection
C22_Witness ==
    /\ Drawn
    /\ fragment.path = "lensed"
    /\ RLt(fragment.screen.r2, uniforms.lensingStrength)
    /\ SameSide(SampleFromCenter, PixelFromCenter, FALSE)
    /\ SampleFromCenter # <<Num(0), Num(0)>>

(***************************************************************************)
(* More claims about the frame loop, checked under FrameSpec               *)
(***************************************************************************)
\* C23: what a GUI handler stored in lensingStrength, eventHorizonRadius or
\* blackHoleZ between two frames is in the uniforms the very next frame
\* renders with, with the black hole animation on or off: while a frame
\* renders, the uniforms and every uniform set its pass has read hold the
\* current PARAMS values.
C23_GuiChangeInNextFrame ==
    (pc \in {"render", "updateInfoPanel"}) =>
        \A u \in Snapshots \cup {uniforms} :
            /\ u.lensingStrength = PARAMS.lensingStrength
            /\ u.eventHorizonRadius = PARAMS.eventHorizonRadius
            /\ u.blackHoleWorldPosition[3] = PARAMS.blackHoleZ

\* the pass of a later frame, the animation switched off and the black hole
\* moved to z = -3 since the frame before
C23_Witness ==
    /\ pc = "render"
    /\ frames >= 1
    /\ passReads # {}
    /\ ~PARAMS.animateBlackHole
    /\ PARAMS.blackHoleZ = <<-3, 1>>
    /\ \A u \in Snapshots : u.blackHoleWorldPosition[3] = <<-3, 1>>

(***************************************************************************)
(* The order of the shader's two early returns, checked under ShaderSpec   *)
(***************************************************************************)
\* tca >= 0 for the drawn pixel, computed from the uniforms as lines 27-31 do
AheadOfRay ==
    LET rayDir == getRayDirection(vUv, uniforms.cameraWorldPosition, uniforms.projectionMatrixInverse,
                                  uniforms.viewMatrixInverse)
        L      == Sub3(uniforms.blackHoleWorldPosition, uniforms.cameraWorldPosition)
    IN  RLe(Num(0), dot3(L, rayDir.dir))

\* C24: the absorbed result is produced exactly when tca >= 0 and
\* d < eventHorizonRadius; the behind-the-ray test runs first, so a pixel
\* with tca < 0 returns the unlensed background (uv plus drift, wrapped) even
\* when its impact parameter is below the event-horizon radius.
C24_AbsorbedIffAheadAndBelowRadius ==
    Drawn =>
        /\ fragment.gl_FragColor = Absorbed <=> (AheadOfRay /\ BelowRadius)
        /\ ~AheadOfRay =>
              /\ fragment.path = "behind"
              /\ fragment.sampleUv = fract2(Add2(vUv, drift(uniforms.time)))
              /\ fragment.gl_FragColor = texture2D(fragment.sampleUv)

\* a pixel with the black hole behind its ray and an impact parameter below
\* the radius, drawn from the background
C24_Witness ==
    /\ Drawn
    /\ ~AheadOfRay
    /\ BelowRadius
    /\ fragment.path = "behind"
    /\ fragment.gl_FragColor \notin {Absorbed, Unspecified}

(***************************************************************************)
(* The scene's light and mesh, checked under FrameSpec                     *)
(***************************************************************************)
\* C25: at every render, after any sequence of frames and GUI changes
\* (changing the black hole's z while its animation is switched off
\* included), the point light's position equals the black hole mesh's.
C25_LightAtBlackHoleAtRender ==
    (pc = "render") => (pointLight = blackHoleMesh)

\* a frame rendering after the black hole's z was changed with the
\* animation on: the animator has brought the light along
C25_Witness ==
    /\ pc = "render"
    /\ PARAMS.animateBlackHole
    /\ blackHoleMesh[3] = <<-3, 1>>
    /\ pointLight = blackHoleMesh

C27_ShownMeshInSceneWithRadius ==
    PARAMS.showBlackHoleMesh =>
        /\ sceneMesh.inScene
        /\ sceneMesh.visible
        /\ sceneMesh.radius = PARAMS.eventHorizonRadius

\* the mesh switched on after the radius was changed: visible, with a sphere
\* of the new radius
C27_Witness ==
    /\ PARAMS.showBlackHoleMesh
    /\ PARAMS.eventHorizonRadius = <<5, 1>>
    /\ sceneMesh.visible
    /\ sceneMesh.radius = <<5, 1>>

(***************************************************************************)
(* The loop's scheduling, checked under LoopSpec                           *)
(***************************************************************************)
\* C28: once the loop has started every frame asks for the following frame
\* before its own work, so a frame that ended, by returning or by an
\* exception in its update, render or info-panel step, is followed by another
\* (up to the MaxFrames completed frames the model follows); and the loop is
\* entered only from the end of init(), after all its setup steps.
C28_LoopNeverStops ==
    /\ [][ (pc' = "animate" /\ pc # "idle")
              => /\ pc = "finishInit"
                 /\ backgroundTexture \in {"galaxy", "placeholder"}
                 /\ uniforms # NoUniforms
                 /\ ~errorDiv
         ]_vars
    /\ [](pc \in {"rejected", "failed"} => [](pc \in {"rejected", "failed"}))
    /\ (pc = "idle" /\ frames < MaxFrames) ~> (pc = "animate")

\* a frame at work although no frame has completed and the frame before it
\* had got as far as drawing the centre pixel: that frame ended by an exception
C28_Witness ==
    /\ pc = "animateBlackHole"
    /\ frames = 0
    /\ passReads = {}
    /\ vUv = <<(<<1, 2>>), (<<1, 2>>)>>

(***************************************************************************)
(* The rays switched off, checked under RaySpec                            *)
(***************************************************************************)
\* C29: whenever showRays is false at a frame's update, every ray line in
\* the group is invisible when that frame is rendered, whatever was drawn in
\* earlier frames.
C29_NoRayShownWhenSwitchedOff ==
    (pc = "render" /\ ~PARAMS.showRays) => \A k \in DOMAIN rayLinesGroup : ~rayLinesGroup[k].visible

\* a frame rendering with the rays off and a group of lines from earlier
\* frames, all hidden
C29_Witness ==
    /\ pc = "render"
    /\ Done("updateRayVisuals")
    /\ ~PARAMS.showRays
    /\ Len(rayLinesGroup) >= 2
    /\ VisibleLines = {}

(***************************************************************************)
(* The time uniform, checked under FrameSpec                               *)
(***************************************************************************)
\* C30: while animateBackground is off, the time uniform every pass reads is
\* 0, so the drift vector is the same constant in all frames; while it is
\* on, the time uniform is the elapsed time animate() read at the start of
\* that frame.
C30_TimeUniformFollowsAnimateBackground ==
    (pc \in {"render", "updateInfoPanel"}) =>
        \A u \in Snapshots \cup {uniforms} :
            /\ ~PARAMS.animateBackground => (u.time = 0 /\ drift(u.time) = drift(0))
            /\ PARAMS.animateBackground => u.time = elapsedTime

\* a pass with the background's animation switched off after the clock has
\* moved on: it reads the time 0
C30_Witness ==
    /\ pc = "render"
    /\ passReads # {}
    /\ ~PARAMS.animateBackground
    /\ elapsedTime > 0
    /\ \A u \in Snapshots : u.time = 0

====
